---- MODULE Spec2Model ----
(***************************************************************************)
(* Model of src/src/lib.rs: the operation counter InstrumentedBase, the    *)
(* wrapper Instrumented<T>, a counting session of count_operations and the  *)
(* sweep table_count_operations (SpecSweep); SpecBorrow follows the        *)
(* handlers statement by statement through the RefCell borrow flag.        *)
(*                                                                         *)
(* A counter is the array counts: [usize; 6], here a function 0..5 -> Nat. *)
(* The heap of Rc<RefCell<InstrumentedBase>> cells is the sequence bases;  *)
(* a wrapper is a record [value, base, id]: base is the index of the cell  *)
(* its Rc points to, id is the identity of the instance.                   *)
(***************************************************************************)
EXTENDS Integers, Sequences, FiniteSets, TLC

\* ---- bounds of the model ----
MaxLen == 4          \* longest batch given to the sort and to the no-op
MaxVal == 3          \* batch values of the sort and the no-op are 0..MaxVal
MaxFreeLen == 1      \* longest batch given to the arbitrary operation
MaxFreeVal == 0      \* its values are NaN and 0..MaxFreeVal
MaxOps == 3          \* steps the arbitrary operation may take
MaxTemps == 2        \* wrappers the arbitrary operation holds outside the batch
MaxSize == 1         \* start sizes of the sweep are 0..MaxSize
MaxLimit == 2        \* limits of the sweep are 0..MaxLimit
MaxSessions == 2     \* sessions a sweep is followed through
MaxDepth == 2        \* deepest nesting Instrumented<Instrumented<..>> on one counter
MaxCalls == 3        \* calls followed statement by statement

\* ---- InstrumentedBase (lib.rs 6-31) ----
NEW_SLOT == 0
CLONE == 1
DROP == 2
EQ == 3
PARTIAL_CMP == 4
CMP == 5
COLUMNS == 6

Slots == 0..(COLUMNS - 1)

\* counts_names(): the label of each slot, in slot order
counts_names == <<"new", "clone", "drop", "eq", "partial_cmp", "cmp">>

\* #[derive(Default)]: all six counts are zero
Default == [s \in Slots |-> 0]

\* set(&mut self, c): overwrite all slots with the array c (a tuple here)
set(self, c) == [s \in Slots |-> c[s + 1]]

\* get(&self): the array of counts
get(self) == <<self[0], self[1], self[2], self[3], self[4], self[5]>>

\* base.borrow_mut().counts[slot] += 1 on cell b of the heap bs
Bump(bs, b, slot) == [bs EXCEPT ![b][slot] = @ + 1]

\* ---- the inner type T ----
\* T is modelled by the integers 0.. with their usual order, plus one value
\* NaN that is incomparable with everything (a T that is PartialOrd only).
NaN == -1

InnerEq(a, b) == a # NaN /\ b # NaN /\ a = b

InnerPartialCmp(a, b) ==
    IF a = NaN \/ b = NaN THEN "None"
    ELSE IF a < b THEN "Less"
    ELSE IF a = b THEN "Equal"
    ELSE "Greater"

InnerCmp(a, b) ==
    IF a < b THEN "Less" ELSE IF a = b THEN "Equal" ELSE "Greater"

InnerClone(a) == a

NoRet == "-"

\* ---- Instrumented<T> (lib.rs 40-115) ----
\* Every method returns the heap after the call, its return value, and
\* whether the inner operation it delegates to panicked (inner = "panic").

\* variant of new: the construction is counted twice
new_twice(bs, value, b, id) ==
    [bases |-> Bump(Bump(bs, b, NEW_SLOT), b, NEW_SLOT),
     ret   |-> [value |-> value, base |-> b, id |-> id],
     panic |-> FALSE]

\* variant of new: the construction is not counted
new_uncounted(bs, value, b, id) ==
    [bases |-> bs,
     ret   |-> [value |-> value, base |-> b, id |-> id],
     panic |-> FALSE]

\* Instrumented::new(value, base)
new(bs, value, b, id) ==
    [bases |-> Bump(bs, b, NEW_SLOT),
     ret   |-> [value |-> value, base |-> b, id |-> id],
     panic |-> FALSE]

\* variant of clone: the copy holds a default value instead of a clone of the value
clone_default_value(bs, self, id, inner) ==
    LET bs1 == Bump(bs, self.base, CLONE) IN
    IF inner = "panic"
    THEN [bases |-> bs1, ret |-> NoRet, panic |-> TRUE]
    ELSE [bases |-> bs1,
          ret   |-> [value |-> 0, base |-> self.base, id |-> id],
          panic |-> FALSE]

\* variant of clone: counted as a construction
clone_counts_new(bs, self, id, inner) ==
    LET bs1 == Bump(bs, self.base, NEW_SLOT) IN
    IF inner = "panic"
    THEN [bases |-> bs1, ret |-> NoRet, panic |-> TRUE]
    ELSE [bases |-> bs1,
          ret   |-> [value |-> InnerClone(self.value), base |-> self.base, id |-> id],
          panic |-> FALSE]

\* variant of clone: the copy gets a counter of its own (a deep copy of base)
clone_fresh_counter(bs, self, id, inner) ==
    LET bs1 == Bump(bs, self.base, CLONE) IN
    IF inner = "panic"
    THEN [bases |-> bs1, ret |-> NoRet, panic |-> TRUE]
    ELSE [bases |-> Append(bs1, bs1[self.base]),
          ret   |-> [value |-> InnerClone(self.value), base |-> Len(bs1) + 1, id |-> id],
          panic |-> FALSE]

\* variant of clone: counted twice
clone_twice(bs, self, id, inner) ==
    LET bs1 == Bump(Bump(bs, self.base, CLONE), self.base, CLONE) IN
    IF inner = "panic"
    THEN [bases |-> bs1, ret |-> NoRet, panic |-> TRUE]
    ELSE [bases |-> bs1,
          ret   |-> [value |-> InnerClone(self.value), base |-> self.base, id |-> id],
          panic |-> FALSE]

\* Clone::clone(&self)
clone(bs, self, id, inner) ==
    LET bs1 == Bump(bs, self.base, CLONE) IN
    IF inner = "panic"
    THEN [bases |-> bs1, ret |-> NoRet, panic |-> TRUE]
    ELSE [bases |-> bs1,
          ret   |-> [value |-> InnerClone(self.value), base |-> self.base, id |-> id],
          panic |-> FALSE]

\* variant of drop: keeps a count of live instances in the new slot
drop_decrements_new(bs, self) ==
    [bases |-> [Bump(bs, self.base, DROP) EXCEPT ![self.base][NEW_SLOT] = @ - 1],
     ret |-> NoRet, panic |-> FALSE]

\* variant of drop: counted in the clone slot
drop_counts_clone(bs, self) ==
    [bases |-> Bump(bs, self.base, CLONE), ret |-> NoRet, panic |-> FALSE]

\* variant of drop: the destruction is not counted
drop_uncounted(bs, self) ==
    [bases |-> bs, ret |-> NoRet, panic |-> FALSE]

\* variant of drop: counted twice
drop_twice(bs, self) ==
    [bases |-> Bump(Bump(bs, self.base, DROP), self.base, DROP),
     ret |-> NoRet, panic |-> FALSE]

\* Drop::drop(&mut self)
drop(bs, self) ==
    [bases |-> Bump(bs, self.base, DROP), ret |-> NoRet, panic |-> FALSE]

\* variant of eq: counted after the inner comparison has returned
eq_counts_after(bs, self, x, inner) ==
    IF inner = "panic"
    THEN [bases |-> bs, ret |-> NoRet, panic |-> TRUE]
    ELSE [bases |-> Bump(bs, self.base, EQ),
          ret   |-> InnerEq(self.value, x.value), panic |-> FALSE]

\* variant of eq: the derived comparison, which also compares the counters
eq_derived(bs, self, x, inner) ==
    LET bs1 == Bump(bs, self.base, EQ) IN
    IF inner = "panic"
    THEN [bases |-> bs1, ret |-> NoRet, panic |-> TRUE]
    ELSE [bases |-> bs1,
          ret   |-> InnerEq(self.value, x.value) /\ bs1[self.base] = bs1[x.base],
          panic |-> FALSE]

\* PartialEq::eq(&self, x)
eq(bs, self, x, inner) ==
    LET bs1 == Bump(bs, self.base, EQ) IN
    IF inner = "panic"
    THEN [bases |-> bs1, ret |-> NoRet, panic |-> TRUE]
    ELSE [bases |-> bs1, ret |-> InnerEq(self.value, x.value), panic |-> FALSE]

\* variant of partial_cmp: counted in the cmp slot
partial_cmp_counts_cmp(bs, self, x, inner) ==
    LET bs1 == Bump(bs, self.base, CMP) IN
    IF inner = "panic"
    THEN [bases |-> bs1, ret |-> NoRet, panic |-> TRUE]
    ELSE [bases |-> bs1, ret |-> InnerPartialCmp(self.value, x.value), panic |-> FALSE]

\* variant of partial_cmp: the operands are exchanged
partial_cmp_swapped(bs, self, x, inner) ==
    LET bs1 == Bump(bs, self.base, PARTIAL_CMP) IN
    IF inner = "panic"
    THEN [bases |-> bs1, ret |-> NoRet, panic |-> TRUE]
    ELSE [bases |-> bs1, ret |-> InnerPartialCmp(x.value, self.value), panic |-> FALSE]

\* PartialOrd::partial_cmp(&self, x)
partial_cmp(bs, self, x, inner) ==
    LET bs1 == Bump(bs, self.base, PARTIAL_CMP) IN
    IF inner = "panic"
    THEN [bases |-> bs1, ret |-> NoRet, panic |-> TRUE]
    ELSE [bases |-> bs1, ret |-> InnerPartialCmp(self.value, x.value), panic |-> FALSE]

\* Ord::cmp(&self, x)
cmp(bs, self, x, inner) ==
    LET bs1 == Bump(bs, self.base, CMP) IN
    IF inner = "panic"
    THEN [bases |-> bs1, ret |-> NoRet, panic |-> TRUE]
    ELSE [bases |-> bs1, ret |-> InnerCmp(self.value, x.value), panic |-> FALSE]

\* ---- state ----
VARIABLES
    pc,         \* position of the session: call, wrap, op, fexit, read, teardown, done, panicked
    mode,       \* the closure f: "noop", "sort" or "free"
    input,      \* the raw batch (Vec<T>) handed to count_operations
    bases,      \* the heap of counter cells; bases[1] is a counter of the caller
    base,       \* the cell allocated by this session (0 before the allocation)
    vec,        \* the wrapped batch Vec<Instrumented<T>>
    temps,      \* wrappers owned by locals of f, in order of creation
    kept,       \* wrappers that f moved out of the session (stored away or forgotten)
    result,     \* the InstrumentedBase returned to the caller
    panicking,  \* a panic is unwinding the stack
    si, sj,     \* position of the insertion sort
    nops,       \* steps taken by the arbitrary operation
    inst,       \* history: per instance id its counter, its lineage (sess: it descends
                \* from the wrapped batch; gen: how many clones away from a new),
                \* its drop() calls and the phase of the session that dropped it
    cloneCalls, \* history: clone() calls f made on wrappers holding the session counter
    ev,         \* history: the tracked operation performed by the last step
    raw,        \* the same operation run on the raw values: the batch, then the locals
    tally,      \* history: tracked calls of this session, up to the read-out, on
                \* wrappers created in this session from its batch
    clonePanicked, \* history: an inner clone() has panicked
    \* table_count_operations
    ti, tj,     \* the size i of the next session and the limit j
    rows,       \* the rows added to the table
    nsess,      \* sessions started by the sweep
    \* one RefCell<InstrumentedBase> and the calls in progress on wrappers around it
    stack,      \* frames of the tracked calls in progress, innermost last
    cell,       \* counts of the cell
    flag,       \* its borrow flag: 0 free, -1 mutably borrowed, n > 0 shared borrows
    failed,     \* a borrow found the cell already borrowed (BorrowMutError, BorrowError)
    ncalls,     \* calls made so far
    unwinding   \* a panic of an inner operation is propagating

sweepVars == <<ti, tj, rows, nsess>>

borrowVars == <<stack, cell, flag, failed, ncalls, unwinding>>

vars == <<pc, mode, input, bases, base, vec, temps, kept, result, panicking,
          si, sj, nops, inst, cloneCalls, ev, raw, tally, clonePanicked,
          sweepVars, borrowVars>>

CallerBase == 1

\* variant of the read-out: taken after vec has been dropped
Snapshot_after_teardown(bs, b) ==
    [bs[b] EXCEPT ![DROP] = @ + Cardinality({i \in 1..Len(vec) : vec[i].base = b})]

\* the read-out of count_operations (lines 165-167): a copy of the counter,
\* taken while vec is still alive
Snapshot(bs, b) == bs[b]

NoEv == [op |-> "none", self |-> NoRet, x |-> NoRet, ret |-> NoRet, panic |-> FALSE]

\* what a step records of the wrappers of a call: value, counter and lineage
Seen(w, i) == [value |-> w.value, base |-> w.base, sess |-> i.sess, gen |-> i.gen]

Event(o, a, b, r) == [op |-> o, self |-> a, x |-> b, ret |-> r.ret, panic |-> r.panic]

RECURSIVE SeqsUpTo(_, _)
SeqsUpTo(S, n) ==
    IF n = 0 THEN {<<>>}
    ELSE LET P == SeqsUpTo(S, n - 1) IN
         P \cup {Append(p, v) : p \in {q \in P : Len(q) = n - 1}, v \in S}

OrdVals == 0..MaxVal
FreeVals == {NaN} \cup (0..MaxFreeVal)

Modes == {"noop", "sort", "free"}

Batches(m) == IF m = "free" THEN SeqsUpTo(FreeVals, MaxFreeLen)
              ELSE SeqsUpTo(OrdVals, MaxLen)

NextId == Len(inst) + 1

\* the slot that counts_names gives to a tracked operation
SlotOf(op) == CHOOSE s \in Slots : counts_names[s + 1] = op

\* history kept by every step of a session: the tally starts at zero when the
\* counter is allocated and follows the tracked calls made before the read-out
\* on wrappers that descend from the batch
Track ==
    /\ tally' = IF pc = "call" THEN Default
                ELSE IF pc \in {"wrap", "op", "fexit"} /\ ev'.op # "none" /\ ev'.self.sess
                     THEN [tally EXCEPT ![SlotOf(ev'.op)] = @ + 1]
                     ELSE tally
    /\ clonePanicked' = (clonePanicked \/ (ev'.op = "clone" /\ ev'.panic))

\* history bookkeeping of instance creation and destruction
Fresh(b, s, g) == [base |-> b, sess |-> s, gen |-> g, drops |-> 0, at |-> "-"]
Born(i) == Append(inst, i)
Was(w) == Seen(w, inst[w.id])

Gone(w, at) == [inst EXCEPT ![w.id].drops = @ + 1, ![w.id].at = at]

Init ==
    /\ pc = "call"
    /\ mode \in Modes
    /\ input \in Batches(mode)
    /\ bases = <<Default>>
    /\ base = 0
    /\ vec = <<>>
    /\ temps = <<>>
    /\ kept = {}
    /\ result = Default
    /\ panicking = FALSE
    /\ si = 2
    /\ sj = 2
    /\ nops = 0
    /\ inst = <<>>
    /\ cloneCalls = 0
    /\ ev = NoEv
    /\ raw = <<>>
    /\ tally = Default
    /\ clonePanicked = FALSE
    /\ ti = 0
    /\ tj = 0
    /\ rows = <<>>
    /\ nsess = 0
    /\ stack = <<>>
    /\ cell = Default
    /\ flag = 0
    /\ failed = FALSE
    /\ ncalls = 0
    /\ unwinding = FALSE

\* ---- count_operations (lib.rs 155-168) ----

\* variant of the allocation: one counter is allocated by the first session
\* and used again by the sessions after it
Alloc_shared ==
    /\ pc = "call"
    /\ IF base = 0
       THEN bases' = Append(bases, Default) /\ base' = Len(bases) + 1
       ELSE bases' = bases /\ base' = base
    /\ pc' = "wrap"
    /\ ev' = NoEv
    /\ UNCHANGED <<mode, input, vec, temps, kept, result, panicking, si, sj,
                   nops, inst, cloneCalls>>
    /\ raw' = raw
    /\ Track
    /\ UNCHANGED <<sweepVars, borrowVars>>

\* line 159: let base = Rc::new(RefCell::new(Default::default()))
Alloc ==
    /\ pc = "call"
    /\ bases' = Append(bases, Default)
    /\ base' = Len(bases) + 1
    /\ pc' = "wrap"
    /\ ev' = NoEv
    /\ UNCHANGED <<mode, input, vec, temps, kept, result, panicking, si, sj,
                   nops, inst, cloneCalls>>
    /\ raw' = raw
    /\ Track
    /\ UNCHANGED <<sweepVars, borrowVars>>

\* lines 160-163: the next element of the batch is wrapped, in order
Wrap ==
    /\ pc = "wrap"
    /\ Len(vec) < Len(input)
    /\ LET r == new(bases, input[Len(vec) + 1], base, NextId) IN
        /\ bases' = r.bases
        /\ vec' = Append(vec, r.ret)
        /\ inst' = Born(Fresh(base, TRUE, 0))
        /\ ev' = Event("new", Seen(r.ret, Fresh(base, TRUE, 0)), NoRet, r)
    /\ UNCHANGED <<pc, mode, input, base, temps, kept, result, panicking, si, sj,
                   nops, cloneCalls>>
    /\ raw' = raw
    /\ Track
    /\ UNCHANGED <<sweepVars, borrowVars>>

\* line 164: f(&mut vec) is entered once the batch is collected
Call ==
    /\ pc = "wrap"
    /\ Len(vec) = Len(input)
    /\ pc' = "op"
    /\ ev' = NoEv
    /\ UNCHANGED <<mode, input, bases, base, vec, temps, kept, result, panicking,
                   si, sj, nops, inst, cloneCalls>>
    /\ raw' = input
    /\ Track
    /\ UNCHANGED <<sweepVars, borrowVars>>

\* f returns (or unwinds): its remaining locals are dropped, last one first
FExitDrop ==
    /\ pc = "fexit"
    /\ temps # <<>>
    /\ LET w == temps[Len(temps)]
           r == drop(bases, w) IN
        /\ bases' = r.bases
        /\ temps' = SubSeq(temps, 1, Len(temps) - 1)
        /\ inst' = Gone(w, "fexit")
        /\ ev' = Event("drop", Was(w), NoRet, r)
    /\ UNCHANGED <<pc, mode, input, base, vec, kept, result, panicking, si, sj,
                   nops, cloneCalls>>
    /\ raw' = SubSeq(raw, 1, Len(raw) - 1)
    /\ Track
    /\ UNCHANGED <<sweepVars, borrowVars>>

FExitDone ==
    /\ pc = "fexit"
    /\ temps = <<>>
    /\ pc' = IF panicking THEN "teardown" ELSE "read"
    /\ ev' = NoEv
    /\ UNCHANGED <<mode, input, bases, base, vec, temps, kept, result, panicking,
                   si, sj, nops, inst, cloneCalls>>
    /\ raw' = raw
    /\ Track
    /\ UNCHANGED <<sweepVars, borrowVars>>

\* lines 165-167: the counter is copied out
Read ==
    /\ pc = "read"
    /\ result' = Snapshot(bases, base)
    /\ pc' = "teardown"
    /\ ev' = NoEv
    /\ UNCHANGED <<mode, input, bases, base, vec, temps, kept, panicking, si, sj,
                   nops, inst, cloneCalls>>
    /\ raw' = raw
    /\ Track
    /\ UNCHANGED <<sweepVars, borrowVars>>

\* line 168 (or unwinding through count_operations): vec is dropped,
\* element by element from the front
TeardownDrop ==
    /\ pc = "teardown"
    /\ vec # <<>>
    /\ LET w == Head(vec)
           r == drop(bases, w) IN
        /\ bases' = r.bases
        /\ vec' = Tail(vec)
        /\ inst' = Gone(w, "teardown")
        /\ ev' = Event("drop", Was(w), NoRet, r)
    /\ UNCHANGED <<pc, mode, input, base, temps, kept, result, panicking, si, sj,
                   nops, cloneCalls>>
    /\ raw' = raw
    /\ Track
    /\ UNCHANGED <<sweepVars, borrowVars>>

TeardownDone ==
    /\ pc = "teardown"
    /\ vec = <<>>
    /\ pc' = IF panicking THEN "panicked" ELSE "done"
    /\ ev' = NoEv
    /\ UNCHANGED <<mode, input, bases, base, vec, temps, kept, result, panicking,
                   si, sj, nops, inst, cloneCalls>>
    /\ raw' = raw
    /\ Track
    /\ UNCHANGED <<sweepVars, borrowVars>>

\* ---- the closures f ----

\* tests::print: |_x| ()
NoopReturn ==
    /\ pc = "op"
    /\ mode = "noop"
    /\ pc' = "fexit"
    /\ ev' = NoEv
    /\ UNCHANGED <<mode, input, bases, base, vec, temps, kept, result, panicking,
                   si, sj, nops, inst, cloneCalls>>
    /\ raw' = raw
    /\ Track
    /\ UNCHANGED <<sweepVars, borrowVars>>

\* tests::it_sort1, it_sort2: |x| x.sort().  The slice sort on a short slice
\* is an insertion sort: element si is moved left while it is less than its
\* left neighbour; is_less is PartialOrd::lt, that is partial_cmp(..) ==
\* Some(Less); elements are moved, not cloned.
Swap(s, i, j) == [s EXCEPT ![i] = s[j], ![j] = s[i]]

SortStep ==
    /\ pc = "op"
    /\ mode = "sort"
    /\ si <= Len(vec)
    /\ LET r == partial_cmp(bases, vec[sj], vec[sj - 1], "ok") IN
        /\ bases' = r.bases
        /\ ev' = Event("partial_cmp", Was(vec[sj]), Was(vec[sj - 1]), r)
        /\ IF r.ret = "Less"
           THEN /\ vec' = Swap(vec, sj, sj - 1)
                /\ IF sj - 1 > 1
                   THEN si' = si /\ sj' = sj - 1
                   ELSE si' = si + 1 /\ sj' = si + 1
           ELSE /\ vec' = vec
                /\ si' = si + 1
                /\ sj' = si + 1
    /\ UNCHANGED <<pc, mode, input, base, temps, kept, result, panicking,
                   nops, inst, cloneCalls>>
    /\ raw' = IF InnerPartialCmp(raw[sj], raw[sj - 1]) = "Less"
              THEN Swap(raw, sj, sj - 1) ELSE raw
    /\ Track
    /\ UNCHANGED <<sweepVars, borrowVars>>

SortReturn ==
    /\ pc = "op"
    /\ mode = "sort"
    /\ si > Len(vec)
    /\ pc' = "fexit"
    /\ ev' = NoEv
    /\ UNCHANGED <<mode, input, bases, base, vec, temps, kept, result, panicking,
                   si, sj, nops, inst, cloneCalls>>
    /\ raw' = raw
    /\ Track
    /\ UNCHANGED <<sweepVars, borrowVars>>

\* ---- an arbitrary closure f: any sequence of the steps below ----
Reach == [k \in 1..(Len(vec) + Len(temps)) |->
            IF k <= Len(vec) THEN vec[k] ELSE temps[k - Len(vec)]]

ReachIdx == 1..(Len(vec) + Len(temps))

Remove(s, k) == SubSeq(s, 1, k - 1) \o SubSeq(s, k + 1, Len(s))

FreeStep == pc = "op" /\ mode = "free" /\ nops < MaxOps

\* after a tracked call: go on, or unwind if the inner operation panicked
After(r) ==
    /\ pc' = IF r.panic THEN "fexit" ELSE pc
    /\ panicking' = r.panic
    /\ nops' = nops + 1

\* a == b on two wrappers f can reach
OpEq ==
    /\ FreeStep
    /\ \E a \in ReachIdx, b \in ReachIdx, inner \in {"ok", "panic"} :
        LET r == eq(bases, Reach[a], Reach[b], inner) IN
        /\ bases' = r.bases
        /\ ev' = Event("eq", Was(Reach[a]), Was(Reach[b]), r)
        /\ After(r)
    /\ UNCHANGED <<mode, input, base, vec, temps, kept, result, si, sj, inst,
                   cloneCalls>>
    /\ raw' = raw
    /\ Track
    /\ UNCHANGED <<sweepVars, borrowVars>>

\* a.partial_cmp(&b), also reached by <, <=, >, >=
OpPartialCmp ==
    /\ FreeStep
    /\ \E a \in ReachIdx, b \in ReachIdx, inner \in {"ok", "panic"} :
        LET r == partial_cmp(bases, Reach[a], Reach[b], inner) IN
        /\ bases' = r.bases
        /\ ev' = Event("partial_cmp", Was(Reach[a]), Was(Reach[b]), r)
        /\ After(r)
    /\ UNCHANGED <<mode, input, base, vec, temps, kept, result, si, sj, inst,
                   cloneCalls>>
    /\ raw' = raw
    /\ Track
    /\ UNCHANGED <<sweepVars, borrowVars>>

\* a.cmp(&b): T is Ord, so neither value is incomparable
OpCmp ==
    /\ FreeStep
    /\ \E a \in ReachIdx, b \in ReachIdx, inner \in {"ok", "panic"} :
        /\ Reach[a].value # NaN
        /\ Reach[b].value # NaN
        /\ LET r == cmp(bases, Reach[a], Reach[b], inner) IN
            /\ bases' = r.bases
            /\ ev' = Event("cmp", Was(Reach[a]), Was(Reach[b]), r)
            /\ After(r)
    /\ UNCHANGED <<mode, input, base, vec, temps, kept, result, si, sj, inst,
                   cloneCalls>>
    /\ raw' = raw
    /\ Track
    /\ UNCHANGED <<sweepVars, borrowVars>>

\* let t = a.clone()
OpClone ==
    /\ FreeStep
    /\ Len(temps) < MaxTemps
    /\ \E a \in ReachIdx, inner \in {"ok", "panic"} :
        LET r == clone(bases, Reach[a], NextId, inner) IN
        /\ bases' = r.bases
        /\ ev' = Event("clone", Was(Reach[a]), NoRet, r)
        /\ cloneCalls' = IF Reach[a].base = base THEN cloneCalls + 1 ELSE cloneCalls
        /\ raw' = IF r.panic THEN raw ELSE Append(raw, InnerClone(raw[a]))
        /\ IF r.panic
           THEN temps' = temps /\ inst' = inst
           ELSE /\ temps' = Append(temps, r.ret)
                /\ inst' = Born(Fresh(r.ret.base, inst[Reach[a].id].sess,
                                      inst[Reach[a].id].gen + 1))
        /\ After(r)
    /\ UNCHANGED <<mode, input, base, vec, kept, result, si, sj>>
    /\ Track
    /\ UNCHANGED <<sweepVars, borrowVars>>

\* let t = Instrumented::new(v, mine.clone()) on the counter the caller owns
OpNew ==
    /\ FreeStep
    /\ Len(temps) < MaxTemps
    /\ \E v \in FreeVals :
        LET r == new(bases, v, CallerBase, NextId) IN
        /\ bases' = r.bases
        /\ ev' = Event("new", Seen(r.ret, Fresh(CallerBase, FALSE, 0)), NoRet, r)
        /\ temps' = Append(temps, r.ret)
        /\ raw' = Append(raw, v)
        /\ inst' = Born(Fresh(CallerBase, FALSE, 0))
        /\ After(r)
    /\ UNCHANGED <<mode, input, base, vec, kept, result, si, sj, cloneCalls>>
    /\ Track
    /\ UNCHANGED <<sweepVars, borrowVars>>

\* drop(t), or t goes out of scope inside f
OpDropTemp ==
    /\ FreeStep
    /\ \E k \in 1..Len(temps) :
        LET r == drop(bases, temps[k]) IN
        /\ bases' = r.bases
        /\ ev' = Event("drop", Was(temps[k]), NoRet, r)
        /\ temps' = Remove(temps, k)
        /\ raw' = Remove(raw, Len(vec) + k)
        /\ inst' = Gone(temps[k], "op")
        /\ After(r)
    /\ UNCHANGED <<mode, input, base, vec, kept, result, si, sj, cloneCalls>>
    /\ Track
    /\ UNCHANGED <<sweepVars, borrowVars>>

\* x[i] = t: the old element is dropped, t is moved into the batch
OpAssign ==
    /\ FreeStep
    /\ \E i \in 1..Len(vec), k \in 1..Len(temps) :
        LET r == drop(bases, vec[i]) IN
        /\ bases' = r.bases
        /\ ev' = Event("drop", Was(vec[i]), NoRet, r)
        /\ vec' = [vec EXCEPT ![i] = temps[k]]
        /\ temps' = Remove(temps, k)
        /\ raw' = Remove([raw EXCEPT ![i] = raw[Len(vec) + k]], Len(vec) + k)
        /\ inst' = Gone(vec[i], "op")
        /\ After(r)
    /\ UNCHANGED <<mode, input, base, kept, result, si, sj, cloneCalls>>
    /\ Track
    /\ UNCHANGED <<sweepVars, borrowVars>>

\* x.swap(i, j), std::mem::swap(&mut x[i], &mut t), std::mem::swap(&mut t, &mut u):
\* the wrappers in two places f can reach are exchanged, by moves
OpSwap ==
    /\ FreeStep
    /\ \E i \in ReachIdx, j \in ReachIdx :
        /\ i < j
        /\ LET sw == Swap(Reach, i, j) IN
            /\ vec' = SubSeq(sw, 1, Len(vec))
            /\ temps' = SubSeq(sw, Len(vec) + 1, Len(sw))
        /\ raw' = Swap(raw, i, j)
    /\ ev' = NoEv
    /\ nops' = nops + 1
    /\ UNCHANGED <<pc, mode, input, bases, base, kept, result, panicking,
                   si, sj, inst, cloneCalls>>
    /\ Track
    /\ UNCHANGED <<sweepVars, borrowVars>>

\* t is moved out of the session: stored by the caller, or std::mem::forget(t)
OpKeep ==
    /\ FreeStep
    /\ \E k \in 1..Len(temps) :
        /\ kept' = kept \cup {temps[k]}
        /\ temps' = Remove(temps, k)
        /\ raw' = Remove(raw, Len(vec) + k)
    /\ ev' = NoEv
    /\ nops' = nops + 1
    /\ UNCHANGED <<pc, mode, input, bases, base, vec, result, panicking,
                   si, sj, inst, cloneCalls>>
    /\ Track
    /\ UNCHANGED <<sweepVars, borrowVars>>

\* f panics on its own (an unwrap, an index out of bounds)
OpPanic ==
    /\ pc = "op"
    /\ mode = "free"
    /\ pc' = "fexit"
    /\ panicking' = TRUE
    /\ ev' = NoEv
    /\ UNCHANGED <<mode, input, bases, base, vec, temps, kept, result,
                   si, sj, nops, inst, cloneCalls>>
    /\ raw' = raw
    /\ Track
    /\ UNCHANGED <<sweepVars, borrowVars>>

\* f returns
OpReturn ==
    /\ pc = "op"
    /\ mode = "free"
    /\ pc' = "fexit"
    /\ ev' = NoEv
    /\ UNCHANGED <<mode, input, bases, base, vec, temps, kept, result, panicking,
                   si, sj, nops, inst, cloneCalls>>
    /\ raw' = raw
    /\ Track
    /\ UNCHANGED <<sweepVars, borrowVars>>

Next ==
    \/ Alloc
    \/ Wrap
    \/ Call
    \/ NoopReturn
    \/ SortStep
    \/ SortReturn
    \/ OpEq
    \/ OpPartialCmp
    \/ OpCmp
    \/ OpClone
    \/ OpNew
    \/ OpDropTemp
    \/ OpAssign
    \/ OpSwap
    \/ OpKeep
    \/ OpPanic
    \/ OpReturn
    \/ FExitDrop
    \/ FExitDone
    \/ Read
    \/ TeardownDrop
    \/ TeardownDone

Spec == Init /\ [][Next]_vars

\* ---- table_count_operations (lib.rs 117-141) ----

\* rand_vec (lines 143-153): the values 0..i-1 pushed in order, then shuffled
rand_vec(i) == {s \in [1..i -> 0..(i - 1)] : \A a, b \in 1..i : s[a] = s[b] => a = b}

InitSweep ==
    /\ pc = "loop"
    /\ mode = "free"
    /\ ti \in 0..MaxSize
    /\ tj \in 0..MaxLimit
    /\ rows = <<>>
    /\ nsess = 0
    /\ input = <<>>
    /\ bases = <<Default>>
    /\ base = 0
    /\ kept = {}
    /\ result = Default
    /\ inst = <<>>
    /\ tally = Default
    /\ clonePanicked = FALSE
    /\ vec = <<>>
    /\ temps = <<>>
    /\ panicking = FALSE
    /\ si = 2
    /\ sj = 2
    /\ nops = 0
    /\ cloneCalls = 0
    /\ raw = <<>>
    /\ ev = NoEv
    /\ stack = <<>>
    /\ cell = Default
    /\ flag = 0
    /\ failed = FALSE
    /\ ncalls = 0
    /\ unwinding = FALSE

\* lines 128-131: the loop test holds, a batch of size i is drawn and handed
\* to count_operations; wrappers of earlier sessions that f put away are no
\* longer of the lineage of the running session.  MaxOps bounds the steps f
\* takes over all its calls, so nops is carried from session to session.
SweepEnter ==
    /\ pc = "loop"
    /\ ti <= tj
    /\ nsess < MaxSessions
    /\ input' \in rand_vec(ti)
    /\ nsess' = nsess + 1
    /\ inst' = [k \in 1..Len(inst) |-> [inst[k] EXCEPT !.sess = FALSE]]
    /\ pc' = "call"
    /\ vec' = <<>>
    /\ temps' = <<>>
    /\ panicking' = FALSE
    /\ si' = 2
    /\ sj' = 2
    /\ cloneCalls' = 0
    /\ raw' = <<>>
    /\ ev' = NoEv
    /\ UNCHANGED <<mode, bases, base, kept, result, nops, tally, clonePanicked,
                   ti, tj, rows, borrowVars>>

\* lines 131-138: the counts returned by the session become a row of the
\* table, and i <<= 1.  The shift cannot wrap: rand_vec(i) reserves i u64 and
\* panics on capacity overflow long before i has its top bit set.
SweepRow ==
    /\ pc = "done"
    /\ rows' = Append(rows, [size |-> ti, counts |-> get(result)])
    /\ ti' = 2 * ti
    /\ pc' = "loop"
    /\ UNCHANGED <<mode, input, bases, base, vec, temps, kept, result, panicking,
                   si, sj, nops, inst, cloneCalls, ev, raw, tally, clonePanicked,
                   tj, nsess, borrowVars>>

\* line 140: the loop test fails and the table is printed
SweepExit ==
    /\ pc = "loop"
    /\ ti > tj
    /\ pc' = "printed"
    /\ UNCHANGED <<mode, input, bases, base, vec, temps, kept, result, panicking,
                   si, sj, nops, inst, cloneCalls, ev, raw, tally, clonePanicked,
                   ti, tj, rows, nsess, borrowVars>>

\* f takes back a wrapper that it put away, in this session or an earlier one
OpTake ==
    /\ FreeStep
    /\ Len(temps) < MaxTemps
    /\ \E w \in kept :
        /\ kept' = kept \ {w}
        /\ temps' = Append(temps, w)
        /\ raw' = Append(raw, w.value)
    /\ ev' = NoEv
    /\ nops' = nops + 1
    /\ UNCHANGED <<pc, mode, input, bases, base, vec, result, panicking,
                   si, sj, inst, cloneCalls>>
    /\ Track
    /\ UNCHANGED <<sweepVars, borrowVars>>

NextSweep ==
    \/ SweepEnter
    \/ Alloc
    \/ Wrap
    \/ Call
    \/ OpEq
    \/ OpPartialCmp
    \/ OpCmp
    \/ OpClone
    \/ OpDropTemp
    \/ OpAssign
    \/ OpSwap
    \/ OpKeep
    \/ OpTake
    \/ OpPanic
    \/ OpReturn
    \/ FExitDrop
    \/ FExitDone
    \/ Read
    \/ TeardownDrop
    \/ TeardownDone
    \/ SweepRow
    \/ SweepExit

SpecSweep == InitSweep /\ [][NextSweep]_vars

\* ---- the handlers statement by statement (lib.rs 56-115, 165-166) ----
\* One cell shared by wrappers nested up to MaxDepth deep: the inner value
\* of a wrapper of depth d > 1 is a wrapper of depth d - 1 on the same cell,
\* so its inner operation is a tracked call made from inside a tracked call.

sessionVars == <<pc, mode, input, bases, base, vec, temps, kept, result, panicking,
                 si, sj, nops, inst, cloneCalls, ev, raw, tally, clonePanicked>>

Ops == {counts_names[s + 1] : s \in Slots}

Frame(op, d) == [op |-> op, depth |-> d, at |-> "borrow"]

Top == stack[Len(stack)]

Pop == SubSeq(stack, 1, Len(stack) - 1)

At(a) == [stack EXCEPT ![Len(stack)].at = a]

\* variant of the end of the counting statement: the RefMut is still held
Released_held(f) == f

\* the borrow flag after the counting statement: the temporary RefMut is
\* dropped at the end of self.base.borrow_mut().counts[..] += 1;
Released(f) == 0

InitBorrow ==
    /\ pc = "call"
    /\ mode = "free"
    /\ input = <<>>
    /\ bases = <<Default>>
    /\ base = 0
    /\ vec = <<>>
    /\ temps = <<>>
    /\ kept = {}
    /\ result = Default
    /\ panicking = FALSE
    /\ si = 2
    /\ sj = 2
    /\ nops = 0
    /\ inst = <<>>
    /\ cloneCalls = 0
    /\ ev = NoEv
    /\ raw = <<>>
    /\ tally = Default
    /\ clonePanicked = FALSE
    /\ ti = 0
    /\ tj = 0
    /\ rows = <<>>
    /\ nsess = 0
    /\ stack = <<>>
    /\ cell = Default
    /\ flag = 0
    /\ failed = FALSE
    /\ ncalls = 0
    /\ unwinding = FALSE

\* the session or f calls a tracked operation on a wrapper of depth d; while
\* a panic propagates the only calls are the destructors of the locals
BCall ==
    /\ stack = <<>>
    /\ ~failed
    /\ ncalls < MaxCalls
    /\ \E op \in Ops, d \in 1..MaxDepth :
        /\ unwinding => op = "drop"
        /\ stack' = <<Frame(op, d)>>
    /\ ncalls' = ncalls + 1
    /\ UNCHANGED <<cell, flag, failed, unwinding, sessionVars, sweepVars>>

\* self.base.borrow_mut(): panics when the cell is borrowed, else takes it
BBorrowMut ==
    /\ stack # <<>>
    /\ Top.at = "borrow"
    /\ IF flag # 0
       THEN /\ failed' = TRUE
            /\ unwinding' = TRUE
            /\ stack' = <<>>
            /\ flag' = flag
       ELSE /\ flag' = -1
            /\ stack' = At("count")
            /\ UNCHANGED <<failed, unwinding>>
    /\ UNCHANGED <<cell, ncalls, sessionVars, sweepVars>>

\* .counts[slot] += 1 through the RefMut
BCount ==
    /\ stack # <<>>
    /\ Top.at = "count"
    /\ cell' = [cell EXCEPT ![SlotOf(Top.op)] = @ + 1]
    /\ stack' = At("release")
    /\ UNCHANGED <<flag, failed, ncalls, unwinding, sessionVars, sweepVars>>

\* the statement ends
BRelease ==
    /\ stack # <<>>
    /\ Top.at = "release"
    /\ flag' = Released(flag)
    /\ stack' = At("inner")
    /\ UNCHANGED <<cell, failed, ncalls, unwinding, sessionVars, sweepVars>>

\* self.value.clone(), self.value == other.value, self.value.partial_cmp(..),
\* self.value.cmp(..), and the drop of the field value after Drop::drop: on a
\* nested wrapper the inner operation is the same tracked call one level down
BDelegate ==
    /\ stack # <<>>
    /\ Top.at = "inner"
    /\ Top.op # "new"
    /\ Top.depth > 1
    /\ stack' = Append(At("wait"), Frame(Top.op, Top.depth - 1))
    /\ UNCHANGED <<cell, flag, failed, ncalls, unwinding, sessionVars, sweepVars>>

\* the call returns: new has no inner operation, the innermost value is a
\* plain T whose operation returned, or the nested call is back
BReturn ==
    /\ stack # <<>>
    /\ \/ Top.at = "wait"
       \/ Top.at = "inner" /\ (Top.op = "new" \/ Top.depth = 1)
    /\ stack' = Pop
    /\ UNCHANGED <<cell, flag, failed, ncalls, unwinding, sessionVars, sweepVars>>

\* the operation of the plain T panics: the frames unwind
BPanic ==
    /\ stack # <<>>
    /\ Top.at = "inner"
    /\ Top.depth = 1
    /\ Top.op \in {"clone", "eq", "partial_cmp", "cmp"}
    /\ stack' = <<>>
    /\ unwinding' = TRUE
    /\ UNCHANGED <<cell, flag, failed, ncalls, sessionVars, sweepVars>>

\* lines 165-166: (*base).clone() takes a shared borrow of the cell for the
\* copy and panics when it is mutably borrowed; base2.borrow() is on the copy
BRead ==
    /\ stack = <<>>
    /\ ~unwinding
    /\ ~failed
    /\ ncalls < MaxCalls
    /\ failed' = (flag < 0)
    /\ ncalls' = ncalls + 1
    /\ UNCHANGED <<stack, cell, flag, unwinding, sessionVars, sweepVars>>

NextBorrow ==
    \/ BCall
    \/ BBorrowMut
    \/ BCount
    \/ BRelease
    \/ BDelegate
    \/ BReturn
    \/ BPanic
    \/ BRead

SpecBorrow == InitBorrow /\ [][NextBorrow]_vars

\* ---- properties ----
Range(s) == {s[i] : i \in 1..Len(s)}

\* the wrapper instances that exist: in the batch, in a local of f, or kept
Alive == Range(vec) \cup Range(temps) \cup kept

Ids == 1..Len(inst)

\* count_operations has produced its return value
Returned == pc \in {"teardown", "done"} /\ ~panicking

N == Len(input)

\* C1: every tracked operation adds exactly 1 to its own slot of the counter
\* its wrapper holds and changes nothing else in any counter; a step that
\* performs no tracked operation (a move, a swap, the read-out) changes no
\* counter.
C1_OneSlotPerOperation ==
    [][IF ev'.op = "none"
       THEN pc = "call" \/ bases' = bases
       ELSE bases' = Bump(bases, ev'.self.base, SlotOf(ev'.op))]_vars

C1_Witness ==
    /\ ev.op = "clone"
    /\ ~ev.panic
    /\ N = 1
    /\ get(bases[base]) = <<1, 1, 0, 0, 0, 0>>

\* C2: a clone holds the counter of its source: every instance that descends
\* from the wrapped batch by clones holds the one counter of the session, no
\* other counter is ever allocated, every tracked operation on such an
\* instance adds 1 to the session counter, and a clone is a new instance with
\* a copy of the source's value that leaves the source as it was.
C2_CloneSharesCounter ==
    [][/\ \A w \in Alive' : inst'[w.id].sess => w.base = base'
       /\ Len(bases') <= 2
       /\ (ev'.op # "none" /\ ev'.self.sess)
            => bases'[base][SlotOf(ev'.op)] = bases[base][SlotOf(ev'.op)] + 1
       /\ (ev'.op = "clone" /\ ~ev'.panic)
            => /\ ev'.ret.value = ev'.self.value
               /\ ev'.ret.base = ev'.self.base
               /\ ev'.ret.id \notin {w.id : w \in Alive}
               /\ Alive' = Alive \cup {ev'.ret}]_vars

C2_Witness ==
    /\ ev.op = "eq"
    /\ ev.self.sess
    /\ ev.self.gen = 2
    /\ bases[base][EQ] = 1

\* C3: with an operation that does nothing, count_operations returns
\* new = N and zero in the five other slots, for every batch length N >= 0.
C3_NoopCounts ==
    (Returned /\ (mode = "noop" \/ (mode = "free" /\ nops = 0)))
        => get(result) = <<N, 0, 0, 0, 0, 0>>

C3_Witness ==
    /\ pc = "done"
    /\ mode = "noop"
    /\ N = 3
    /\ get(result) = <<3, 0, 0, 0, 0, 0>>

IsSorted(s) == \A i \in 1..(Len(s) - 1) : s[i] <= s[i + 1]

IsStrictlyDescending(s) == \A i \in 1..(Len(s) - 1) : s[i] > s[i + 1]

\* C4 as stated: the insertion sort on an already sorted batch of N values
\* returns new = N, partial_cmp = N - 1 and zero elsewhere, for every N.
C4_Original ==
    (Returned /\ mode = "sort" /\ IsSorted(input))
        => get(result) = <<N, 0, 0, 0, N - 1, 0>>

\* C4 as amended: the insertion sort on an already sorted batch of N >= 1
\* values returns new = N, partial_cmp = N - 1 and zero elsewhere, and all
\* zero for the empty batch; [0,1,2,3] gives [4,0,0,0,3,0].
C4_SortedCounts ==
    (Returned /\ mode = "sort" /\ IsSorted(input))
        => /\ get(result) = <<N, 0, 0, 0, IF N = 0 THEN 0 ELSE N - 1, 0>>
           /\ input = <<0, 1, 2, 3>> => result = set(Default, <<4, 0, 0, 0, 3, 0>>)

C4_Witness ==
    /\ pc = "done"
    /\ mode = "sort"
    /\ input = <<0, 1, 2, 3>>
    /\ get(result)[PARTIAL_CMP + 1] = 3

\* C5: the insertion sort on a strictly descending batch of N values returns
\* new = N, partial_cmp = N(N-1)/2 and zero elsewhere; [3,2,1,0] gives
\* [4,0,0,0,6,0].
C5_DescendingCounts ==
    (Returned /\ mode = "sort" /\ IsStrictlyDescending(input))
        => /\ get(result) = <<N, 0, 0, 0, (N * (N - 1)) \div 2, 0>>
           /\ input = <<3, 2, 1, 0>> => result = set(Default, <<4, 0, 0, 0, 6, 0>>)

C5_Witness ==
    /\ pc = "done"
    /\ mode = "sort"
    /\ input = <<3, 2, 1, 0>>
    /\ get(result)[PARTIAL_CMP + 1] = 6

\* C6: the clone slot returned by count_operations is the number of clone
\* calls the operation made on wrappers holding the session counter, whatever
\* became of the clones (dropped, written into the batch, or kept).
C6_CloneSlotCountsCalls ==
    Returned => result[CLONE] = cloneCalls

C6_Witness ==
    /\ pc = "done"
    /\ cloneCalls = 2
    /\ result[CLONE] = 2
    /\ \E w \in kept : inst[w.id].gen > 0
    /\ \E i \in Ids : inst[i].gen > 0 /\ inst[i].drops = 1

\* C7: when the session has ended and no instance holding its counter
\* survives, the drop slot of the counter equals new + clone, the number of
\* instances created on that counter.
C7_Conservation ==
    (pc = "done" /\ \A w \in kept : w.base # base)
        => /\ bases[base][DROP] = bases[base][NEW_SLOT] + bases[base][CLONE]
           /\ bases[base][DROP] = Cardinality({i \in Ids : inst[i].base = base})

C7_Witness ==
    /\ pc = "done"
    /\ \A w \in kept : w.base # base
    /\ bases[base][NEW_SLOT] = 1
    /\ bases[base][CLONE] = 2
    /\ bases[base][DROP] = 3

\* the instances holding counter b that the teardown of vec has dropped
TornDown(b) == {i \in Ids : inst[i].at = "teardown" /\ inst[i].base = b}

\* C8: the result is read before vec is torn down: the drops of the teardown
\* are in the counter but not in the returned value, which stays as it was
\* read; the teardown drops the N elements of the batch.
C8_ReadBeforeTeardown ==
    [][Returned'
        => /\ result'[DROP] + Cardinality(TornDown(base)') = bases'[base][DROP]
           /\ \A s \in Slots \ {DROP} : result'[s] = bases'[base][s]
           /\ pc = "teardown" => result' = result
           /\ pc' = "done" => Cardinality({i \in Ids' : inst'[i].at = "teardown"}) = N]_vars

C8_Witness ==
    /\ pc = "done"
    /\ ~panicking
    /\ N = 1
    /\ result[DROP] = 1
    /\ bases[base][DROP] = 2

\* C9: every instance is dropped at most once, it is dropped exactly when it
\* stops existing, and the drop slot of each counter is the number of
\* instances on it that were dropped: overwritten, dropped as a local,
\* discarded with the batch or unwound by a panic.  Moves and swaps do not
\* change it.  After the session only kept instances are left.
C9_DropOncePerInstance ==
    /\ \A i \in Ids : inst[i].drops = (IF i \in {w.id : w \in Alive} THEN 0 ELSE 1)
    /\ \A b \in 1..Len(bases) :
        bases[b][DROP] = Cardinality({i \in Ids : inst[i].base = b /\ inst[i].drops = 1})
    /\ pc \in {"done", "panicked"} => Alive = kept

C9_Witness ==
    /\ pc = "panicked"
    /\ \E i \in Ids : inst[i].at = "op"
    /\ \E i \in Ids : inst[i].at = "fexit"
    /\ \E i \in Ids : inst[i].at = "teardown"
    /\ bases[base][DROP] = 3

\* C10: eq, partial_cmp and cmp of two wrappers return what the inner values
\* return, whatever counters the wrappers hold and whatever these contain;
\* partial_cmp is None exactly when a value is incomparable.
C10_ComparisonTransparent ==
    (ev.op \in {"eq", "partial_cmp", "cmp"} /\ ~ev.panic)
        => LET a == ev.self.value
               b == ev.x.value
           IN /\ ev.op = "eq" => ev.ret = (a # NaN /\ b # NaN /\ a = b)
              /\ ev.op = "partial_cmp" =>
                    /\ ev.ret = "None" <=> (a = NaN \/ b = NaN)
                    /\ ev.ret = "Less" <=> (a # NaN /\ b # NaN /\ a < b)
                    /\ ev.ret = "Equal" <=> (a # NaN /\ b # NaN /\ a = b)
                    /\ ev.ret = "Greater" <=> (a # NaN /\ b # NaN /\ a > b)
              /\ ev.op = "cmp" =>
                    /\ ev.ret = "Less" <=> a < b
                    /\ ev.ret = "Equal" <=> a = b
                    /\ ev.ret = "Greater" <=> a > b

C10_Witness ==
    /\ ev.op = "eq"
    /\ ~ev.panic
    /\ ev.ret = TRUE
    /\ ev.self.base # ev.x.base
    /\ bases[ev.self.base] # bases[ev.x.base]

\* the inner values of a sequence of wrappers
Values(s) == [k \in 1..Len(s) |-> s[k].value]

\* C11: the wrapped batch holds the raw batch in its order, and while the
\* operation runs and until the read-out the inner values of the batch (and
\* of the locals of the operation) are those the same operation produces on
\* the raw values, in the same order.
C11_ValueTransparent ==
    /\ pc = "wrap" => Values(vec) = SubSeq(input, 1, Len(vec))
    /\ pc \in {"op", "fexit", "read"} => Values(vec \o temps) = raw

C11_Witness ==
    /\ pc = "op"
    /\ mode = "free"
    /\ input = <<NaN>>
    /\ raw = <<0, NaN>>
    /\ Values(vec) = <<0>>
    /\ Values(temps) = <<NaN>>

\* C12: when the inner operation of clone, eq, partial_cmp or cmp panics, the
\* call has already added 1 to its slot, and the panic unwinds.
C12_CountedBeforeDelegating ==
    [][(ev'.op \in {"clone", "eq", "partial_cmp", "cmp"} /\ ev'.panic)
        => /\ bases'[ev'.self.base][SlotOf(ev'.op)]
                = bases[ev'.self.base][SlotOf(ev'.op)] + 1
           /\ panicking'
           /\ pc' = "fexit"]_vars

C12_Witness ==
    /\ ev.op = "eq"
    /\ ev.panic
    /\ pc = "fexit"
    /\ get(bases[base]) = <<1, 0, 0, 1, 0, 0>>

\* C13: the counter of a session starts with six zeros and no step of the
\* session lowers a slot of any counter or removes a counter.
C13_SlotsNeverDecrease ==
    [][/\ Len(bases') >= Len(bases)
       /\ \A b \in 1..Len(bases) : \A s \in Slots : bases'[b][s] >= bases[b][s]
       /\ pc = "call" => (base' = Len(bases) + 1 /\ bases'[base'] = Default)]_vars

C13_Witness ==
    /\ pc = "done"
    /\ get(bases[base]) = <<1, 1, 2, 1, 0, 0>>

\* the instances that exist and hold counter b
Holding(b) == {w \in Alive : w.base = b}

\* C14: no borrow of the counter fails: every tracked call, also one made
\* from inside the inner operation of another or by a destructor while a
\* panic propagates, finds the counter unborrowed; the exclusive borrow is
\* released before the inner operation is invoked; and the counter is
\* unborrowed whenever no tracked call runs, as at the snapshot read.
C14_NeverAlreadyBorrowed ==
    /\ ~failed
    /\ stack = <<>> => flag = 0
    /\ (stack # <<>> /\ Top.at \in {"borrow", "inner", "wait"}) => flag = 0
    /\ (stack # <<>> /\ Top.at \in {"count", "release"}) => flag = -1

C14_Witness ==
    /\ unwinding
    /\ Len(stack) = 2
    /\ stack[1].op = "drop"
    /\ stack[1].at = "wait"
    /\ stack[2].at = "count"
    /\ flag = -1
    /\ cell[CLONE] = 2

\* C15: as long as no inner clone has panicked, new + clone - drop of every
\* counter is the number of instances alive that hold it, so it is never
\* negative, and it is N for the session counter when the batch is wrapped.
C15_LiveInstances ==
    ~clonePanicked
        => /\ \A b \in 1..Len(bases) :
                /\ bases[b][NEW_SLOT] + bases[b][CLONE] - bases[b][DROP]
                      = Cardinality(Holding(b))
                /\ bases[b][NEW_SLOT] + bases[b][CLONE] - bases[b][DROP] >= 0
           /\ (pc = "wrap" /\ Len(vec) = N)
                => bases[base][NEW_SLOT] + bases[base][CLONE] - bases[base][DROP] = N

C15_Witness ==
    /\ ~clonePanicked
    /\ pc = "op"
    /\ get(bases[base]) = <<1, 2, 0, 0, 0, 0>>
    /\ Cardinality(Holding(base)) = 3
    /\ kept # {}
    /\ temps # <<>>

\* C16: when the operation has only used wrappers that descend from the
\* batch and has kept none, the result has new = N and drop = clone.
C16_FixedLengthBalance ==
    (Returned /\ kept = {} /\ \A i \in Ids : inst[i].sess)
        => /\ result[NEW_SLOT] = N
           /\ result[DROP] = result[CLONE]

C16_Witness ==
    /\ pc = "done"
    /\ mode = "free"
    /\ kept = {}
    /\ \A i \in Ids : inst[i].sess
    /\ N = 1
    /\ inst[1].at = "op"
    /\ get(result) = <<1, 2, 2, 0, 0, 0>>

\* C17: the counter of a session is a new cell holding six zeros that no
\* existing wrapper holds; the counts the session returns are those of the
\* tracked calls made, from its allocation to its read-out, on wrappers that
\* descend from its own batch, so calls on wrappers of other sessions never
\* appear in it; every row of the sweep shows exactly its own batch as
\* constructions.
C17_SessionIsolation ==
    /\ (pc = "wrap" /\ vec = <<>>)
          => /\ bases[base] = Default
             /\ base = Len(bases)
             /\ \A w \in kept : w.base # base
    /\ Returned => result = tally
    /\ \A k \in 1..Len(rows) : rows[k].counts[NEW_SLOT + 1] = rows[k].size

C17_Witness ==
    /\ pc = "done"
    /\ nsess = 2
    /\ Len(rows) = 1
    /\ rows[1].counts = <<1, 1, 0, 0, 0, 0>>
    /\ get(bases[2]) = <<1, 1, 2, 0, 0, 0>>
    /\ get(result) = <<2, 0, 0, 0, 0, 0>>

\* C18: the sizes of the sessions of a sweep are i, 2i, 4i, ..., each
\* strictly greater than the one before, so that the loop test i <= j fails
\* after finitely many sessions.
C18_Original ==
    \A k \in 1..(Len(rows) - 1) :
        /\ rows[k + 1].size = 2 * rows[k].size
        /\ rows[k + 1].size > rows[k].size

C18_Witness ==
    /\ pc = "loop"
    /\ ti = 0
    /\ ti <= tj
    /\ Len(rows) = 2
    /\ rows[1].size = 0
    /\ rows[2].size = 0

====
